---------------------------- MODULE Spec2Model ----------------------------
(***************************************************************************)
(* Option-pricing engines of the quantitative-finance notebooks:           *)
(* closed_formula, monte_carlo_method and binomial_method of               *)
(* "4.4 Black-Scholes-Merton Model.ipynb" and the American put Monte Carlo *)
(* cell of "5.4 American Options.ipynb".                                   *)
(*                                                                         *)
(* Numbers.  A Python/numpy float is modelled as an exact value in sign-   *)
(* magnitude form [k, s, n, d]: k = "fin" is the rational s*n/d (n >= 0,   *)
(* d > 0, lowest terms; n = 0 keeps its sign, as IEEE zero does), "inf" is *)
(* s*infinity, "nan" is NaN and "none" is Python's None.  Arithmetic on    *)
(* finite values is exact (no rounding), so the identities checked below   *)
(* are identities of the algorithm, not of a rounding mode.                *)
(*                                                                         *)
(* Transcendentals.  np.exp is the exact exponential b^x of base b = 4 on  *)
(* the grid x in (1/2)Z (so exp(1/2) = 2): it is positive, strictly        *)
(* increasing and exp(a+b) = exp(a)*exp(b), exp(0) = 1, which are the laws *)
(* the pricers rely on; np.log is its inverse on the powers of two;        *)
(* np.sqrt is exact on squares of rationals.  An operation is applied only *)
(* to parameter sets on which it is representable (the OnGrid guards).     *)
(* ss.norm.cdf is a table of the normal distribution function at the       *)
(* half-integers (4 decimals), the argument rounded to the nearest         *)
(* half-integer, computed for x < 0 as 1 - cdf(-x).                        *)
(***************************************************************************)
EXTENDS Integers, Sequences, FiniteSets, TLC

VARIABLES
    call,   \* the pricing call being executed / just finished: arguments and outcome
    rng,    \* state of numpy's process-wide generator (np.random.mtrand._rand)
    saved   \* an earlier Monte Carlo call kept for comparison (arguments and outcome)

vars == <<call, rng, saved>>

\* ------------------------------------------------------------------ bounds
MaxN == 3
MaxM == 2

\* ------------------------------------------------------------ float values
RECURSIVE GCD(_, _)
GCD(a, b) == IF b = 0 THEN a ELSE GCD(b, a % b)

Abs(i) == IF i < 0 THEN -i ELSE i
Sgn(i) == IF i < 0 THEN -1 ELSE 1

\* the finite value s*n/d in lowest terms (n >= 0, d > 0)
Q(s, n, d) == LET g == GCD(n, d) IN [k |-> "fin", s |-> s, n |-> n \div g, d |-> d \div g]
\* the finite value a/b for integers a and b > 0
Frac(a, b) == Q(Sgn(a), Abs(a), b)
Int2Num(i) == Frac(i, 1)
NaN == [k |-> "nan", s |-> 1, n |-> 0, d |-> 1]
Inf(s) == [k |-> "inf", s |-> s, n |-> 0, d |-> 1]
NoneV == [k |-> "none", s |-> 1, n |-> 0, d |-> 1]
Zero == Int2Num(0)
One == Int2Num(1)

IsFin(x) == x.k = "fin"
IsNaN(x) == x.k = "nan"
IsInf(x) == x.k = "inf"
IsZero(x) == x.k = "fin" /\ x.n = 0
\* a float that is a real number: neither NaN nor an infinity nor None
IsNumber(x) == x.k \in {"fin", "surd"}

Neg(x) == IF x.k \in {"fin", "inf"} THEN [x EXCEPT !.s = -x.s] ELSE x

\* x * y (IEEE: NaN propagates, 0 * inf = NaN)
Mul(x, y) ==
    IF IsNaN(x) \/ IsNaN(y) THEN NaN
    ELSE IF IsInf(x) \/ IsInf(y)
         THEN IF IsZero(x) \/ IsZero(y) THEN NaN ELSE Inf(x.s * y.s)
         ELSE LET g1 == GCD(x.n, y.d)
                  g2 == GCD(y.n, x.d)
              IN  IF x.n = 0 \/ y.n = 0 THEN [k |-> "fin", s |-> x.s * y.s, n |-> 0, d |-> 1]
                  ELSE [k |-> "fin", s |-> x.s * y.s,
                        n |-> (x.n \div g1) * (y.n \div g2),
                        d |-> (x.d \div g2) * (y.d \div g1)]

\* x + y (IEEE: inf + -inf = NaN; an exact zero sum is +0 unless both are -0)
Add(x, y) ==
    IF IsNaN(x) \/ IsNaN(y) THEN NaN
    ELSE IF IsInf(x) /\ IsInf(y) THEN (IF x.s = y.s THEN x ELSE NaN)
    ELSE IF IsInf(x) THEN x
    ELSE IF IsInf(y) THEN y
    ELSE LET g == GCD(x.d, y.d)
             a == x.s * x.n * (y.d \div g) + y.s * y.n * (x.d \div g)
             m == (x.d \div g) * y.d
         IN  IF a = 0
             THEN [k |-> "fin", s |-> (IF x.s = -1 /\ y.s = -1 THEN -1 ELSE 1), n |-> 0, d |-> 1]
             ELSE Q(Sgn(a), Abs(a), m)

Sub(x, y) == Add(x, Neg(y))

\* numpy's x / y: division by zero gives inf or NaN (a RuntimeWarning), never raises
DivNp(x, y) ==
    IF IsNaN(x) \/ IsNaN(y) THEN NaN
    ELSE IF IsInf(x) THEN (IF IsInf(y) THEN NaN ELSE Inf(x.s * y.s))
    ELSE IF IsInf(y) THEN [k |-> "fin", s |-> x.s * y.s, n |-> 0, d |-> 1]
    ELSE IF y.n = 0 THEN (IF x.n = 0 THEN NaN ELSE Inf(x.s * y.s))
    ELSE Mul(x, [k |-> "fin", s |-> y.s, n |-> y.d, d |-> y.n])

\* x < y, x <= y on floats (every comparison with NaN is false)
Lt(x, y) ==
    /\ ~IsNaN(x) /\ ~IsNaN(y)
    /\ IF IsInf(x) THEN x.s = -1 /\ ~(IsInf(y) /\ y.s = -1)
       ELSE IF IsInf(y) THEN y.s = 1
       ELSE LET diff == Add(x, Neg(y)) IN diff.s = -1 /\ diff.n # 0
Le(x, y) ==
    /\ ~IsNaN(x) /\ ~IsNaN(y)
    /\ ~Lt(y, x)
\* x == y on floats (+0 == -0, NaN equals nothing)
NumEq(x, y) == Le(x, y) /\ Le(y, x)

\* np.maximum(x, y): NaN propagates
Maximum(x, y) == IF IsNaN(x) \/ IsNaN(y) THEN NaN ELSE IF Lt(x, y) THEN y ELSE x

\* an array with entries f[1..n], held as a tuple
RECURSIVE AsTuple(_, _)
AsTuple(f, n) == IF n = 0 THEN <<>> ELSE Append(AsTuple(f, n - 1), f[n])

RECURSIVE PowInt(_, _)
PowInt(b, e) == IF e = 0 THEN 1 ELSE b * PowInt(b, e - 1)

\* x ** j for a float x and an integer j >= 0
RECURSIVE Pow(_, _)
Pow(x, j) == IF j = 0 THEN One ELSE Mul(Pow(x, j - 1), x)

\* ---------------------------------------------------------- transcendentals
\* x is a finite value on the exponent grid (1/2)Z, or not finite
OnExpGrid(x) == IsFin(x) => x.d \in {1, 2}

\* np.exp(x) = 4^x on the grid: 2^(2x); exp(inf) = inf, exp(-inf) = 0
Exp(x) ==
    IF IsNaN(x) THEN NaN
    ELSE IF IsInf(x) THEN (IF x.s = 1 THEN Inf(1) ELSE Zero)
    ELSE LET e == (2 * x.n) \div x.d
         IN  IF x.s = 1 THEN Q(1, PowInt(2, e), 1) ELSE Q(1, 1, PowInt(2, e))

\* j such that 2^j = m, for m a power of two
RECURSIVE Log2(_)
Log2(m) == IF m <= 1 THEN 0 ELSE 1 + Log2(m \div 2)
IsPow2(m) == m >= 1 /\ PowInt(2, Log2(m)) = m

\* x is a power of two (np.log is then on the grid), or outside (0, inf)
OnLogGrid(x) == (IsFin(x) /\ x.n > 0 /\ x.s = 1) => (IsPow2(x.n) /\ IsPow2(x.d))

\* np.log(x): NaN below zero, -inf at zero, the inverse of Exp otherwise
Log(x) ==
    IF IsNaN(x) THEN NaN
    ELSE IF IsZero(x) THEN Inf(-1)
    ELSE IF x.s = -1 THEN NaN
    ELSE IF IsInf(x) THEN Inf(1)
    ELSE Frac(Log2(x.n) - Log2(x.d), 2)

\* integer square root (floor), by bisection: lo*lo <= m < hi*hi
RECURSIVE ISqrtBetween(_, _, _)
ISqrtBetween(m, lo, hi) ==
    IF hi - lo <= 1 THEN lo
    ELSE LET mid == (lo + hi) \div 2
         IN  IF mid * mid <= m THEN ISqrtBetween(m, mid, hi) ELSE ISqrtBetween(m, lo, mid)
ISqrt(m) == ISqrtBetween(m, 0, IF m < 46340 THEN m + 1 ELSE 46341)
IsSquare(m) == ISqrt(m) * ISqrt(m) = m

\* x is the square of a rational, or not a positive finite value
OnSqrtGrid(x) == (IsFin(x) /\ x.s = 1) => (IsSquare(x.n) /\ IsSquare(x.d))

\* np.sqrt(x): NaN below zero, sqrt(-0) = -0
Sqrt(x) ==
    IF IsNaN(x) THEN NaN
    ELSE IF IsZero(x) THEN x
    ELSE IF x.s = -1 THEN NaN
    ELSE IF IsInf(x) THEN x
    ELSE Q(1, ISqrt(x.n), ISqrt(x.d))

\* the normal distribution function at i/2, i = 0..8, in units of 1/10000
CdfTable == <<5000, 6915, 8413, 9332, 9772, 9938, 9987, 9998, 10000>>

\* ss.norm.cdf(x)
NormCdf(x) ==
    IF IsNaN(x) THEN NaN
    ELSE IF IsInf(x) THEN (IF x.s = 1 THEN One ELSE Zero)
    ELSE LET i == (4 * x.n + x.d) \div (2 * x.d)      \* |x| to the nearest half
             up == Frac(CdfTable[IF i > 8 THEN 9 ELSE i + 1], 10000)
         IN  IF x.s = 1 \/ x.n = 0 THEN up ELSE Sub(One, up)


\* ------------------------------------------------------------- call outcomes
\* a call that returned v (and, for the simulations, a standard error and the
\* per-path values), or raised exception e
Return(v) == [kind |-> "return", exc |-> "none", V |-> v, std_err |-> NoneV, values |-> <<>>]
ReturnEstimate(v, e, vals) ==
    [kind |-> "return", exc |-> "none", V |-> v, std_err |-> e, values |-> vals]
Raise(e) == [kind |-> "raise", exc |-> e, V |-> NoneV, std_err |-> NoneV, values |-> <<>>]

\* the payoff selectors a caller may pass: the two the pricers know, and another
Payoffs == {"call", "put", "straddle"}

\* a faulty variant: every selector is taken for a known one
IsCallOrPutLax(payoff) == TRUE

\* the selectors the if/elif branches of the pricers recognise
IsCallOrPut(payoff) == payoff \in {"call", "put"}

\* ------------------------------------------------------------ closed_formula
d1Of(S0, K, T, r, sigma) ==
    DivNp(Add(Log(DivNp(S0, K)), Mul(Add(r, DivNp(Mul(sigma, sigma), Int2Num(2))), T)),
          Mul(sigma, Sqrt(T)))
d2Of(S0, K, T, r, sigma) == Sub(d1Of(S0, K, T, r, sigma), Mul(sigma, Sqrt(T)))

ClosedCall(S0, K, T, r, sigma) ==
    Sub(Mul(S0, NormCdf(d1Of(S0, K, T, r, sigma))),
        Mul(Mul(K, Exp(Neg(Mul(r, T)))), NormCdf(d2Of(S0, K, T, r, sigma))))

\* a faulty variant: the two cdf arguments swapped
ClosedPutSwapped(S0, K, T, r, sigma) ==
    Sub(Mul(Mul(K, Exp(Neg(Mul(r, T)))), NormCdf(Neg(d1Of(S0, K, T, r, sigma)))),
        Mul(S0, NormCdf(Neg(d2Of(S0, K, T, r, sigma)))))

ClosedPut(S0, K, T, r, sigma) ==
    Sub(Mul(Mul(K, Exp(Neg(Mul(r, T)))), NormCdf(Neg(d2Of(S0, K, T, r, sigma)))),
        Mul(S0, NormCdf(Neg(d1Of(S0, K, T, r, sigma)))))

\* closed_formula(S0, K, T, r, sigma, payoff): S0 / K divides Python floats and
\* raises on K = 0; an unknown selector falls off the end and returns None
closed_formula(S0, K, T, r, sigma, payoff) ==
    IF IsZero(K) THEN Raise("ZeroDivisionError")
    ELSE IF payoff = "call" THEN Return(ClosedCall(S0, K, T, r, sigma))
    ELSE IF payoff = "put" THEN Return(ClosedPut(S0, K, T, r, sigma))
    ELSE Return(NoneV)

ClosedOnGrid(S0, K, T, r, sigma) ==
    ~IsZero(K) => /\ OnLogGrid(DivNp(S0, K))
                  /\ OnSqrtGrid(T)
                  /\ OnExpGrid(Mul(r, T))

\* ------------------------------------------------------------- the Greeks
\* the normal density at i/2, i = 0..8, in units of 1/10000 (0 beyond 4)
PdfTable == <<3989, 3521, 2420, 1295, 540, 175, 44, 9, 1>>

\* ss.norm.pdf(x)
NormPdf(x) ==
    IF IsNaN(x) THEN NaN
    ELSE IF IsInf(x) THEN Zero
    ELSE LET i == (4 * x.n + x.d) \div (2 * x.d)      \* |x| to the nearest half
         IN  IF i > 8 THEN Zero ELSE Frac(PdfTable[i + 1], 10000)

\* payoff.lower() on the selectors a caller passes
Lower(payoff) == IF payoff = "Call" THEN "call" ELSE payoff

\* calculate_delta(S0, K, T, r, sigma, payoff)
calculate_delta(S0, K, T, r, sigma, payoff) ==
    IF IsZero(K) THEN Raise("ZeroDivisionError")
    ELSE IF Lower(payoff) = "call" THEN Return(NormCdf(d1Of(S0, K, T, r, sigma)))
    ELSE IF Lower(payoff) = "put" THEN Return(Sub(NormCdf(d1Of(S0, K, T, r, sigma)), One))
    ELSE Return(NoneV)

\* -S0 * ss.norm.pdf(d1) * sigma / (2 * np.sqrt(T))
ThetaDecay(S0, K, T, r, sigma) ==
    DivNp(Mul(Mul(Neg(S0), NormPdf(d1Of(S0, K, T, r, sigma))), sigma),
          Mul(Int2Num(2), Sqrt(T)))

\* a faulty variant: the rate factor is left out
ThetaCarryNoRate(K, T, r, x) == Mul(Mul(K, Exp(Neg(Mul(r, T)))), NormCdf(x))

\* r * K * np.exp(-r * T) * ss.norm.cdf(x)
ThetaCarry(K, T, r, x) == Mul(Mul(Mul(r, K), Exp(Neg(Mul(r, T)))), NormCdf(x))

\* calculate_theta(S0, K, T, r, sigma, payoff)
calculate_theta(S0, K, T, r, sigma, payoff) ==
    IF IsZero(K) THEN Raise("ZeroDivisionError")
    ELSE IF payoff = "call"
         THEN Return(DivNp(Sub(ThetaDecay(S0, K, T, r, sigma),
                               ThetaCarry(K, T, r, d2Of(S0, K, T, r, sigma))),
                           Int2Num(365)))
    ELSE IF payoff = "put"
         THEN Return(DivNp(Add(ThetaDecay(S0, K, T, r, sigma),
                               ThetaCarry(K, T, r, Neg(d2Of(S0, K, T, r, sigma)))),
                           Int2Num(365)))
    ELSE Return(NoneV)

\* calculate_vega(S0, K, T, r, sigma)
calculate_vega(S0, K, T, r, sigma) ==
    IF IsZero(K) THEN Raise("ZeroDivisionError")
    ELSE Return(DivNp(Mul(Mul(S0, Sqrt(T)), NormPdf(d1Of(S0, K, T, r, sigma))),
                      Int2Num(100)))

\* calculate_rho(S0, K, T, r, sigma, payoff)
calculate_rho(S0, K, T, r, sigma, payoff) ==
    IF IsZero(K) THEN Raise("ZeroDivisionError")
    ELSE IF payoff = "call"
         THEN Return(DivNp(Mul(Mul(Mul(K, T), Exp(Neg(Mul(r, T)))),
                               NormCdf(d2Of(S0, K, T, r, sigma))),
                           Int2Num(100)))
    ELSE IF payoff = "put"
         THEN Return(DivNp(Mul(Mul(Mul(Neg(K), T), Exp(Neg(Mul(r, T)))),
                               NormCdf(Neg(d2Of(S0, K, T, r, sigma)))),
                           Int2Num(100)))
    ELSE Return(NoneV)

\* ----------------------------------------------------------- binomial_method
\* ST = np.array([S0 * u**j * d**(N - j) for j in range(N + 1)]); entry j+1 is node j
TerminalPrices(S0, u, d, N) ==
    AsTuple([i \in 1..(N + 1) |-> Mul(Mul(S0, Pow(u, i - 1)), Pow(d, N - (i - 1)))], N + 1)

\* V[:] = np.maximum(ST - K, 0.0) / np.maximum(K - ST, 0.0)
TerminalPayoff(ST, K, payoff) ==
    AsTuple([i \in 1..Len(ST) |-> IF payoff = "call" THEN Maximum(Sub(ST[i], K), Zero)
                                  ELSE Maximum(Sub(K, ST[i]), Zero)], Len(ST))

\* a faulty variant: the two probabilities exchanged
BackwardStepSwapped(V, disc, p, q) ==
    AsTuple([i \in 1..Len(V) |-> IF i < Len(V)
                                 THEN Mul(disc, Add(Mul(q, V[i + 1]), Mul(p, V[i])))
                                 ELSE V[i]], Len(V))

\* a faulty variant: the down factor equal to the up factor
DownFactorAsUp(T, sigma, N) == Exp(Mul(sigma, Sqrt(DivNp(T, Int2Num(N)))))

\* V[:-1] = np.exp(-r * dt) * (p * V[1:] + q * V[:-1]): the right-hand side is
\* evaluated on the old V before any entry is stored
BackwardStep(V, disc, p, q) ==
    AsTuple([i \in 1..Len(V) |-> IF i < Len(V)
                                 THEN Mul(disc, Add(Mul(p, V[i + 1]), Mul(q, V[i])))
                                 ELSE V[i]], Len(V))

\* for i in range(N - 1, -1, -1): k iterations of the step
RECURSIVE BackwardIteration(_, _, _, _, _)
BackwardIteration(V, k, disc, p, q) ==
    IF k = 0 THEN V ELSE BackwardIteration(BackwardStep(V, disc, p, q), k - 1, disc, p, q)

TimeStep(T, N) == DivNp(T, Int2Num(N))
UpFactor(T, sigma, N) == Exp(Mul(sigma, Sqrt(TimeStep(T, N))))
DownFactor(T, sigma, N) == DivNp(One, UpFactor(T, sigma, N))
\* a faulty variant: the rate left out of the probability
UpProbabilityNoRate(T, r, sigma, N) ==
    DivNp(Sub(One, DownFactor(T, sigma, N)),
          Sub(UpFactor(T, sigma, N), DownFactor(T, sigma, N)))

\* p = (np.exp(r * dt) - d) / (u - d)
UpProbability(T, r, sigma, N) ==
    DivNp(Sub(Exp(Mul(r, TimeStep(T, N))), DownFactor(T, sigma, N)),
          Sub(UpFactor(T, sigma, N), DownFactor(T, sigma, N)))

\* a faulty variant: one backward pass too few
LoopCountShort(N) == N - 1

\* the number of passes of "for i in range(N - 1, -1, -1)"
LoopCount(N) == N

binomial_method(S0, K, T, r, sigma, N, payoff) ==
    LET dt == TimeStep(T, N)
        u == UpFactor(T, sigma, N)
        d == DownFactor(T, sigma, N)
        ST == TerminalPrices(S0, u, d, N)
        p == UpProbability(T, r, sigma, N)
        q == Sub(One, p)
    IN  IF ~IsCallOrPut(payoff) THEN Raise("ValueError")
        ELSE Return(BackwardIteration(TerminalPayoff(ST, K, payoff), LoopCount(N),
                                      Exp(Neg(Mul(r, dt))), p, q)[1])

BinomialOnGrid(T, r, sigma, N) ==
    /\ OnSqrtGrid(TimeStep(T, N))
    /\ OnExpGrid(Mul(sigma, Sqrt(TimeStep(T, N))))
    /\ OnExpGrid(Mul(r, TimeStep(T, N)))


\* ------------------------------------------------------- random generation
\* One step of the generator behind np.random.RandomState: a full-period
\* congruential generator on 4 states stands for the Mersenne Twister.
LcgNext(s) == (5 * s + 3) % 4

\* the generator state after i draws from state s
RECURSIVE StateAfter(_, _)
StateAfter(s, i) == IF i = 0 THEN s ELSE StateAfter(LcgNext(s), i - 1)

\* np.random.RandomState(seed): a fresh generator whose state the seed fixes
RandomState(seed) == seed % 4

\* the values a standard normal draw takes in the model
ZVals == <<Int2Num(-1), Zero, One>>

\* random_state.standard_normal(size): draw i is read off the state after i steps
StandardNormal(s, size) == AsTuple([i \in 1..size |-> ZVals[(StateAfter(s, i) % 3) + 1]], size)

\* A seed argument: <<>> is None, <<n>> the integer n.
\* check_random_state(seed): None is the process-wide generator (state g),
\* an integer a fresh RandomState(seed)
\* a faulty variant: an integer seed is ignored
CheckRandomStateShared(seed, g) == g

CheckRandomState(seed, g) == IF seed = <<>> THEN g ELSE RandomState(seed[1])

\* ss.norm.rvs(loc, scale, size, random_state=seed) with the process-wide
\* generator in state g.  scipy rejects a scale that is not >= 0 (ValueError),
\* returns loc without drawing when scale == 0, and otherwise returns
\* standard_normal(size) * scale + loc.
RvsRejects(scale) == ~Le(Zero, scale)
RvsDraws(scale) == ~RvsRejects(scale) /\ ~IsZero(scale)
Rvs(loc, scale, size, seed, g) ==
    IF IsZero(scale) THEN AsTuple([i \in 1..size |-> loc], size)
    ELSE LET z == StandardNormal(CheckRandomState(seed, g), size)
         IN  AsTuple([i \in 1..size |-> Add(Mul(z[i], scale), loc)], size)
\* the process-wide generator's state after that call
RvsStateAfter(scale, size, seed, g) ==
    IF RvsDraws(scale) /\ seed = <<>> THEN StateAfter(g, size) ELSE g

\* ----------------------------------------------------------------- statistics
RECURSIVE SumTo(_, _)
SumTo(a, i) == IF i = 0 THEN Zero ELSE Add(SumTo(a, i - 1), a[i])

\* np.mean(a)
Mean(a) == DivNp(SumTo(a, Len(a)), Int2Num(Len(a)))

\* the non-negative square root of x, kept exact: a rational when x is a square,
\* otherwise the surd [k |-> "surd"] standing for sqrt(n/d)
Root(x) ==
    IF IsNaN(x) THEN NaN
    ELSE IF IsZero(x) THEN x
    ELSE IF x.s = -1 THEN NaN
    ELSE IF IsInf(x) THEN x
    ELSE IF IsSquare(x.n) /\ IsSquare(x.d) THEN Sqrt(x)
    ELSE [k |-> "surd", s |-> 1, n |-> x.n, d |-> x.d]

\* np.var(a, ddof=1): sum of squared deviations over n - 1 (0/0 = NaN when n = 1)
SampleVariance(a) ==
    LET m == Mean(a)
        dev == AsTuple([i \in 1..Len(a) |-> Mul(Sub(a[i], m), Sub(a[i], m))], Len(a))
    IN  DivNp(SumTo(dev, Len(a)), Int2Num(Len(a) - 1))

\* ss.sem(a) = np.std(a, ddof=1) / np.sqrt(n)
Sem(a) == Root(DivNp(SampleVariance(a), Int2Num(Len(a))))

\* ------------------------------------------------------- monte_carlo_method
McLoc(T, r, sigma) == Mul(Sub(r, DivNp(Mul(sigma, sigma), Int2Num(2))), T)
McScale(T, sigma) == Mul(sigma, Sqrt(T))

\* the discounted payoffs np.exp(-r * T) * np.maximum(ST - K, 0) (call) or
\* np.exp(-r * T) * np.maximum(K - ST, 0) (put), with ST = S0 * np.exp(W)
McPayoffs(S0, K, T, r, W, payoff) ==
    AsTuple([i \in 1..Len(W) |->
                LET ST == Mul(S0, Exp(W[i]))
                IN  Mul(Exp(Neg(Mul(r, T))),
                        IF payoff = "call" THEN Maximum(Sub(ST, K), Zero)
                        ELSE Maximum(Sub(K, ST), Zero))], Len(W))

\* monte_carlo_method(S0, K, T, r, sigma, M, payoff, seed), the process-wide
\* generator being in state g: the outcome of the call
monte_carlo_method(S0, K, T, r, sigma, M, payoff, seed, g) ==
    IF RvsRejects(McScale(T, sigma)) THEN Raise("ValueError")
    ELSE IF ~IsCallOrPut(payoff) THEN Raise("ValueError")
    ELSE LET W == Rvs(McLoc(T, r, sigma), McScale(T, sigma), M, seed, g)
             payoffs == McPayoffs(S0, K, T, r, W, payoff)
         IN  ReturnEstimate(Mean(payoffs), Sem(payoffs), payoffs)

\* the process-wide generator's state after the call (the draw comes before the
\* selector is looked at)
McStateAfter(T, sigma, M, seed, g) == RvsStateAfter(McScale(T, sigma), M, seed, g)

McOnGrid(T, r, sigma) ==
    /\ OnSqrtGrid(T)
    /\ OnExpGrid(Mul(r, T))
    /\ ~RvsRejects(McScale(T, sigma)) =>
          /\ OnExpGrid(McLoc(T, r, sigma))
          /\ OnExpGrid(McScale(T, sigma))


\* ------------------------------------------ American put Monte Carlo cell
\* np.exp((r - sigma**2 / 2) * dt + sigma * np.sqrt(dt) * z)
StepFactor(T, r, sigma, N, z) ==
    Exp(Add(Mul(Sub(r, DivNp(Mul(sigma, sigma), Int2Num(2))), TimeStep(T, N)),
            Mul(Mul(sigma, Sqrt(TimeStep(T, N))), z)))

\* S[i, p] after the forward loop; Z is the (N, paths) array of draws in row-major
\* order, Z[i-1, p] being entry (i - 1) * paths + p
RECURSIVE PathPrice(_, _, _, _, _, _, _, _, _)
PathPrice(S0, T, r, sigma, N, paths, Z, i, p) ==
    IF i = 0 THEN S0
    ELSE Mul(PathPrice(S0, T, r, sigma, N, paths, Z, i - 1, p),
             StepFactor(T, r, sigma, N, Z[(i - 1) * paths + p]))

\* the array S: row i (time i*dt) at index i + 1
SimulatePaths(S0, T, r, sigma, N, paths, Z) ==
    AsTuple([i \in 1..(N + 1) |->
                AsTuple([p \in 1..paths |-> PathPrice(S0, T, r, sigma, N, paths, Z, i - 1, p)], paths)],
            N + 1)

\* payoffs = np.maximum(K - S, 0)
PutPayoffs(S, K) ==
    AsTuple([i \in 1..Len(S) |->
                AsTuple([p \in 1..Len(S[i]) |-> Maximum(Sub(K, S[i][p]), Zero)], Len(S[i]))],
            Len(S))

\* a faulty variant: the holder always exercises, the continuation value is dropped
AmericanStepExerciseOnly(payoffs, values, i, disc) ==
    AsTuple([p \in 1..Len(values) |-> payoffs[i + 1][p]], Len(values))

\* a faulty variant: the value is only discounted, exercise is never considered
AmericanStepNoExercise(payoffs, values, i, disc) ==
    AsTuple([p \in 1..Len(values) |-> Mul(disc, values[p])], Len(values))

\* a faulty variant: the carried value is not discounted
AmericanStepUndiscounted(payoffs, values, i, disc) ==
    AsTuple([p \in 1..Len(values) |-> Maximum(payoffs[i + 1][p], values[p])], Len(values))

\* one pass of the backward loop at time index i:
\* option_values = np.maximum(payoffs[i, :], np.exp(-r * dt) * option_values)
AmericanStep(payoffs, values, i, disc) ==
    AsTuple([p \in 1..Len(values) |-> Maximum(payoffs[i + 1][p], Mul(disc, values[p]))],
            Len(values))

\* for i in range(N - 1, -1, -1): the passes i, i - 1, .., 0
RECURSIVE AmericanInduction(_, _, _, _)
AmericanInduction(payoffs, values, i, disc) ==
    IF i < 0 THEN values
    ELSE AmericanInduction(payoffs, AmericanStep(payoffs, values, i, disc), i - 1, disc)

\* option_values once the pass at time index i is done (i = N: before the loop)
RECURSIVE AmericanInductionDownTo(_, _, _, _)
AmericanInductionDownTo(payoffs, N, i, disc) ==
    IF i >= N THEN payoffs[N + 1]
    ELSE AmericanStep(payoffs, AmericanInductionDownTo(payoffs, N, i + 1, disc), i, disc)

\* the draws Z = ss.norm.rvs(loc=0, scale=1, size=(N, paths), random_state=seed)
CellDraws(N, paths, seed, g) == Rvs(Zero, One, N * paths, seed, g)

\* the cell's option_values after the backward loop
AmericanValues(S0, K, T, r, sigma, N, paths, seed, g) ==
    LET S == SimulatePaths(S0, T, r, sigma, N, paths, CellDraws(N, paths, seed, g))
        payoffs == PutPayoffs(S, K)
    IN  AmericanInduction(payoffs, payoffs[N + 1], N - 1, Exp(Neg(Mul(r, TimeStep(T, N)))))

\* the whole cell: american_put, american_put_std_err and the per-path values
american_put_cell(S0, K, T, r, sigma, N, paths, seed, g) ==
    LET values == AmericanValues(S0, K, T, r, sigma, N, paths, seed, g)
    IN  ReturnEstimate(Mean(values), Sem(values), values)

CellOnGrid(T, r, sigma, N) ==
    /\ BinomialOnGrid(T, r, sigma, N)
    /\ OnExpGrid(Mul(Sub(r, DivNp(Mul(sigma, sigma), Int2Num(2))), TimeStep(T, N)))

\* ------------------------------------- exotic options, Monte Carlo cells
\* c * x for a rate factor c > 0 and a standard error x (which may be a root)
Scale(c, x) ==
    IF x.k = "surd" THEN Root(Mul(Mul(c, c), [x EXCEPT !.k = "fin"])) ELSE Mul(c, x)

\* beta1 = 0.5826, the discretisation correction factor; it is taken as 1/2,
\* which keeps beta1 * sqrt(dt) * sigma on the grid of np.exp
Beta1 == Frac(1, 2)

\* B_adj = B * np.exp(-beta1 * np.sqrt(dt) * sigma)
AdjustedBarrier(B, T, sigma, N) ==
    Mul(B, Exp(Neg(Mul(Mul(Beta1, Sqrt(TimeStep(T, N))), sigma))))

\* np.amax(S, axis=0)[p]: the largest of S[0, p] .. S[i, p], for i = Len(S) - 1
RECURSIVE MaxTo(_, _, _)
MaxTo(S, p, i) == IF i = 0 THEN S[1][p] ELSE Maximum(MaxTo(S, p, i - 1), S[i + 1][p])
RunningMaximum(S, p) == MaxTo(S, p, Len(S) - 1)

\* a faulty variant: the comparison the wrong way round
KnockedOutBelow(MT, B_adj) == Le(MT, B_adj)

\* the mask MT >= B_adj
KnockedOut(MT, B_adj) == Le(B_adj, MT)

\* payoffs = np.maximum(ST - K, 0); payoffs[MT >= B_adj] = 0
BarrierPayoffs(S, K, B_adj) ==
    AsTuple([p \in 1..Len(S[1]) |->
                IF KnockedOut(RunningMaximum(S, p), B_adj) THEN Zero
                ELSE Maximum(Sub(S[Len(S)][p], K), Zero)], Len(S[1]))

\* the estimate np.exp(-r * T) * np.mean(payoffs), np.exp(-r * T) * ss.sem(payoffs)
DiscountedEstimate(T, r, payoffs) ==
    ReturnEstimate(Mul(Exp(Neg(Mul(r, T))), Mean(payoffs)),
                   Scale(Exp(Neg(Mul(r, T))), Sem(payoffs)), payoffs)

\* the up-and-out call Monte Carlo cell: mc_barrier_u, mc_barrier_std_err_u
\* and the per-path payoffs
barrier_cell(S0, K, B, T, r, sigma, N, paths, seed, g) ==
    LET S == SimulatePaths(S0, T, r, sigma, N, paths, CellDraws(N, paths, seed, g))
    IN  DiscountedEstimate(T, r, BarrierPayoffs(S, K, AdjustedBarrier(B, T, sigma, N)))

BarrierOnGrid(T, r, sigma, N) ==
    /\ CellOnGrid(T, r, sigma, N)
    /\ OnExpGrid(Mul(r, T))
    /\ OnExpGrid(Mul(Mul(Beta1, Sqrt(TimeStep(T, N))), sigma))

\* AT = np.mean(S, axis=0): the mean of all the rows of S, path by path
ColumnMean(S, p) == Mean(AsTuple([i \in 1..Len(S) |-> S[i][p]], Len(S)))

\* payoffs = np.maximum(AT - K, 0)
AsianPayoffs(S, K) ==
    AsTuple([p \in 1..Len(S[1]) |-> Maximum(Sub(ColumnMean(S, p), K), Zero)], Len(S[1]))

\* the fixed-strike Asian call Monte Carlo cell: mc_asian_fixed,
\* mc_asian_fixed_std_err and the per-path payoffs
asian_cell(S0, K, T, r, sigma, N, paths, seed, g) ==
    LET S == SimulatePaths(S0, T, r, sigma, N, paths, CellDraws(N, paths, seed, g))
    IN  DiscountedEstimate(T, r, AsianPayoffs(S, K))

AsianOnGrid(T, r, sigma, N) == CellOnGrid(T, r, sigma, N) /\ OnExpGrid(Mul(r, T))

\* a faulty variant: the initial price taken for the maximum
InitialPrice(S, p) == S[1][p]

\* YT = np.amax(S, axis=0)[p]
LookbackMaximum(S, p) == RunningMaximum(S, p)

\* payoffs = np.maximum(YT - ST, 0)
LookbackPayoffs(S) ==
    AsTuple([p \in 1..Len(S[1]) |->
                Maximum(Sub(LookbackMaximum(S, p), S[Len(S)][p]), Zero)], Len(S[1]))

\* the floating-strike lookback Monte Carlo cell: mc_lookback,
\* mc_lookback_std_err and the per-path payoffs
lookback_cell(S0, T, r, sigma, N, paths, seed, g) ==
    LET S == SimulatePaths(S0, T, r, sigma, N, paths, CellDraws(N, paths, seed, g))
    IN  DiscountedEstimate(T, r, LookbackPayoffs(S))

LookbackOnGrid(T, r, sigma, N) == CellOnGrid(T, r, sigma, N) /\ OnExpGrid(Mul(r, T))

\* ------------------------------------------------------------- the notebook
\* Parameter values a caller may pass.  The data model's valid ones are S0 > 0,
\* K >= 0, T > 0, sigma > 0 and any r; the others are what a caller may pass
\* all the same.
S0Valid == {One, Int2Num(2)}
S0Invalid == {Int2Num(-1), Zero}
KValid == {Zero, One, Int2Num(2)}
KInvalid == {Int2Num(-1)}
TValid == {One, Int2Num(2), Int2Num(3), Int2Num(4)}
TInvalid == {Int2Num(-1), Zero}
SigmaValid == {Frac(1, 2), One}
SigmaInvalid == {Int2Num(-1), Zero}
RSet == {Int2Num(-1), Zero, Frac(1, 2), One}

ParameterSets(S0s, Ks, Ts, sigmas) ==
    {[S0 |-> S0, K |-> K, T |-> T, r |-> r, sigma |-> sigma] :
        S0 \in S0s, K \in Ks, T \in Ts, r \in RSet, sigma \in sigmas}

\* the valid parameter sets, and those with one parameter out of its domain
MarketParameters ==
    ParameterSets(S0Valid, KValid, TValid, SigmaValid)
        \cup ParameterSets(S0Invalid, KValid, TValid, SigmaValid)
        \cup ParameterSets(S0Valid, KInvalid, TValid, SigmaValid)
        \cup ParameterSets(S0Valid, KValid, TInvalid, SigmaValid)
        \cup ParameterSets(S0Valid, KValid, TValid, SigmaInvalid)

\* seed=None, seed=42 (the notebooks' seed) and another integer seed
Seeds == {<<>>, <<42>>, <<7>>}

ValidParameters(S0, K, T, sigma) ==
    /\ Lt(Zero, S0) /\ Le(Zero, K) /\ Lt(Zero, T) /\ Lt(Zero, sigma)

Idle ==
    [fn |-> "idle", S0 |-> Zero, K |-> Zero, T |-> Zero, r |-> Zero, sigma |-> Zero,
     N |-> 0, M |-> 0, payoff |-> "call", seed |-> <<>>, g |-> 0, out |-> Return(NoneV),
     B |-> NoneV]

Init ==
    /\ call = Idle
    /\ rng \in 0..3
    /\ saved = Idle

\* a call's record: the function, its arguments and its outcome
CallRecord(fn, m, N, M, payoff, seed, out) ==
    [fn |-> fn, S0 |-> m.S0, K |-> m.K, T |-> m.T, r |-> m.r, sigma |-> m.sigma,
     N |-> N, M |-> M, payoff |-> payoff, seed |-> seed, g |-> rng, out |-> out,
     B |-> IF "B" \in DOMAIN m THEN m.B ELSE NoneV]

\* a cell calls closed_formula
CallClosedFormula ==
    /\ call.fn = "idle"
    /\ \E m \in MarketParameters, payoff \in Payoffs :
          /\ ClosedOnGrid(m.S0, m.K, m.T, m.r, m.sigma)
          /\ call' = CallRecord("closed_formula", m, 0, 0, payoff, <<>>,
                                closed_formula(m.S0, m.K, m.T, m.r, m.sigma, payoff))
    /\ UNCHANGED <<rng, saved>>

\* a cell calls binomial_method
CallBinomialMethod ==
    /\ call.fn = "idle"
    /\ \E m \in MarketParameters, N \in 1..MaxN, payoff \in Payoffs :
          /\ BinomialOnGrid(m.T, m.r, m.sigma, N)
          /\ call' = CallRecord("binomial_method", m, N, 0, payoff, <<>>,
                                binomial_method(m.S0, m.K, m.T, m.r, m.sigma, N, payoff))
    /\ UNCHANGED <<rng, saved>>

\* monte_carlo_method is called on a parameter set of ms
CallMonteCarloOn(ms) ==
    /\ call.fn = "idle"
    /\ \E m \in ms, M \in 1..MaxM, payoff \in Payoffs, seed \in Seeds :
          /\ McOnGrid(m.T, m.r, m.sigma)
          /\ call' = CallRecord("monte_carlo_method", m, 0, M, payoff, seed,
                                monte_carlo_method(m.S0, m.K, m.T, m.r, m.sigma, M, payoff, seed, rng))
          /\ rng' = McStateAfter(m.T, m.sigma, M, seed, rng)
    /\ UNCHANGED saved

\* a cell calls monte_carlo_method
CallMonteCarloMethod == CallMonteCarloOn(MarketParameters)

\* the American put cell runs, on a valid parameter set
RunAmericanPutCell ==
    /\ call.fn = "idle"
    /\ \E m \in MarketParameters, N \in 1..MaxN, paths \in 1..MaxM, seed \in Seeds \ {<<>>} :
          /\ ValidParameters(m.S0, m.K, m.T, m.sigma)
          /\ CellOnGrid(m.T, m.r, m.sigma, N)
          /\ call' = CallRecord("american_put", m, N, paths, "put", seed,
                                american_put_cell(m.S0, m.K, m.T, m.r, m.sigma, N, paths, seed, rng))
    /\ UNCHANGED <<rng, saved>>

\* the call is over and the kernel waits for the next cell
Finish ==
    /\ call.fn # "idle"
    /\ call' = Idle
    /\ UNCHANGED <<rng, saved>>

Next ==
    \/ CallClosedFormula
    \/ CallBinomialMethod
    \/ CallMonteCarloMethod
    \/ RunAmericanPutCell
    \/ Finish

Spec == Init /\ [][Next]_vars

\* ------------------------------------------------- the Greeks notebook
\* the selectors a caller may pass to the Greek functions
GreekPayoffs == Payoffs \cup {"Call"}

\* a cell calls calculate_delta
CallCalculateDelta ==
    /\ call.fn = "idle"
    /\ \E m \in MarketParameters, payoff \in GreekPayoffs :
          /\ ClosedOnGrid(m.S0, m.K, m.T, m.r, m.sigma)
          /\ call' = CallRecord("calculate_delta", m, 0, 0, payoff, <<>>,
                                calculate_delta(m.S0, m.K, m.T, m.r, m.sigma, payoff))
    /\ UNCHANGED <<rng, saved>>

\* a cell calls calculate_theta
CallCalculateTheta ==
    /\ call.fn = "idle"
    /\ \E m \in MarketParameters, payoff \in GreekPayoffs :
          /\ ClosedOnGrid(m.S0, m.K, m.T, m.r, m.sigma)
          /\ call' = CallRecord("calculate_theta", m, 0, 0, payoff, <<>>,
                                calculate_theta(m.S0, m.K, m.T, m.r, m.sigma, payoff))
    /\ UNCHANGED <<rng, saved>>

\* a cell calls calculate_vega (which takes no selector)
CallCalculateVega ==
    /\ call.fn = "idle"
    /\ \E m \in MarketParameters :
          /\ ClosedOnGrid(m.S0, m.K, m.T, m.r, m.sigma)
          /\ call' = CallRecord("calculate_vega", m, 0, 0, "call", <<>>,
                                calculate_vega(m.S0, m.K, m.T, m.r, m.sigma))
    /\ UNCHANGED <<rng, saved>>

\* a cell calls calculate_rho
CallCalculateRho ==
    /\ call.fn = "idle"
    /\ \E m \in MarketParameters, payoff \in GreekPayoffs :
          /\ ClosedOnGrid(m.S0, m.K, m.T, m.r, m.sigma)
          /\ call' = CallRecord("calculate_rho", m, 0, 0, payoff, <<>>,
                                calculate_rho(m.S0, m.K, m.T, m.r, m.sigma, payoff))
    /\ UNCHANGED <<rng, saved>>

\* the cells of the Greeks notebook run in any order
NextGreeks ==
    \/ CallCalculateDelta
    \/ CallCalculateTheta
    \/ CallCalculateVega
    \/ CallCalculateRho
    \/ Finish

SpecGreeks == Init /\ [][NextGreeks]_vars

\* ------------------------------------------- the exotic options notebook
\* barrier levels B of the parameter cell
BarrierLevels == {One, Int2Num(2), Int2Num(4)}

\* the parameter cell: valid parameters with a non-negative rate
ExoticParameters ==
    {m \in MarketParameters : ValidParameters(m.S0, m.K, m.T, m.sigma) /\ Le(Zero, m.r)}

\* the up-and-out call Monte Carlo cell runs
RunBarrierCell ==
    /\ call.fn = "idle"
    /\ \E m \in ExoticParameters, B \in BarrierLevels, N \in 1..MaxN,
          paths \in 1..MaxM, seed \in Seeds \ {<<>>} :
          /\ BarrierOnGrid(m.T, m.r, m.sigma, N)
          /\ call' = CallRecord("barrier_u", m @@ [B |-> B], N, paths,
                                "call", seed,
                                barrier_cell(m.S0, m.K, B, m.T, m.r, m.sigma, N, paths, seed, rng))
    /\ UNCHANGED <<rng, saved>>

\* the fixed-strike Asian call Monte Carlo cell runs
RunAsianCell ==
    /\ call.fn = "idle"
    /\ \E m \in ExoticParameters, N \in 1..MaxN, paths \in 1..MaxM,
          seed \in Seeds \ {<<>>} :
          /\ AsianOnGrid(m.T, m.r, m.sigma, N)
          /\ call' = CallRecord("asian_fixed", m, N, paths, "call", seed,
                                asian_cell(m.S0, m.K, m.T, m.r, m.sigma, N, paths, seed, rng))
    /\ UNCHANGED <<rng, saved>>

\* the floating-strike lookback Monte Carlo cell runs
RunLookbackCell ==
    /\ call.fn = "idle"
    /\ \E m \in ExoticParameters, N \in 1..MaxN, paths \in 1..MaxM,
          seed \in Seeds \ {<<>>} :
          /\ LookbackOnGrid(m.T, m.r, m.sigma, N)
          /\ call' = CallRecord("lookback", m, N, paths, "call", seed,
                                lookback_cell(m.S0, m.T, m.r, m.sigma, N, paths, seed, rng))
    /\ UNCHANGED <<rng, saved>>

\* the cells of the exotic options notebook run in any order
NextExotic ==
    \/ RunBarrierCell
    \/ RunLookbackCell
    \/ RunAsianCell
    \/ Finish

SpecExotic == Init /\ [][NextExotic]_vars

\* ------------------------------------- the forward loop, statement by statement
\* S = np.zeros((N+1, paths))
ZerosArray(N, paths) ==
    AsTuple([i \in 1..(N + 1) |-> AsTuple([p \in 1..paths |-> Zero], paths)], N + 1)

\* S[i, :] = row
SetRow(S, i, row) == [S EXCEPT ![i + 1] = row]

\* a faulty variant: every row computed from row 0
ForwardRowFromStart(S, T, r, sigma, N, paths, Z, i) ==
    AsTuple([p \in 1..paths |->
                Mul(S[1][p], StepFactor(T, r, sigma, N, Z[(i - 1) * paths + p]))], paths)

\* S[i-1, :] * np.exp((r - sigma**2 / 2) * dt + sigma * np.sqrt(dt) * Z[i-1, :])
ForwardRow(S, T, r, sigma, N, paths, Z, i) ==
    AsTuple([p \in 1..paths |->
                Mul(S[i][p], StepFactor(T, r, sigma, N, Z[(i - 1) * paths + p]))], paths)

\* parameter sets of the path simulations: T and sigma valid, any S0
PathParameters ==
    {m \in MarketParameters : Le(Zero, m.K) /\ Lt(Zero, m.T) /\ Lt(Zero, m.sigma)}

\* the cell allocates S, sets row 0 and draws Z; i is the loop variable and
\* writes[j + 1] counts the assignments to row j
StartPathLoop ==
    /\ call.fn = "idle"
    /\ \E m \in PathParameters, N \in 1..MaxN, paths \in 1..MaxM, seed \in Seeds \ {<<>>} :
          /\ CellOnGrid(m.T, m.r, m.sigma, N)
          /\ call' = CallRecord("path_loop", m, N, paths, "call", seed, Return(NoneV))
                        @@ [i |-> 1,
                            S |-> SetRow(ZerosArray(N, paths), 0,
                                         AsTuple([p \in 1..paths |-> m.S0], paths)),
                            Z |-> CellDraws(N, paths, seed, rng),
                            writes |-> AsTuple([j \in 1..(N + 1) |-> IF j = 1 THEN 1 ELSE 0],
                                               N + 1)]
    /\ UNCHANGED <<rng, saved>>

\* one pass of for i in range(1, N+1)
ForwardStep ==
    /\ call.fn = "path_loop"
    /\ call.i <= call.N
    /\ call' = [call EXCEPT
                  !.S = SetRow(call.S, call.i,
                               ForwardRow(call.S, call.T, call.r, call.sigma, call.N, call.M,
                                          call.Z, call.i)),
                  !.writes[call.i + 1] = @ + 1,
                  !.i = @ + 1]
    /\ UNCHANGED <<rng, saved>>

\* the loop has ended and the cell goes on
EndPathLoop ==
    /\ call.fn = "path_loop"
    /\ call.i = call.N + 1
    /\ call' = Idle
    /\ UNCHANGED <<rng, saved>>

NextPaths ==
    \/ StartPathLoop
    \/ ForwardStep
    \/ EndPathLoop

SpecPaths == Init /\ [][NextPaths]_vars

\* ------------------------------------- binomial_method, statement by statement
\* binomial_method is entered: dt, u, d, ST, p, q are computed, then V is set
\* to the terminal payoff, or ValueError is raised for an unknown selector;
\* k counts the passes of the backward loop done so far
EnterBinomialMethod ==
    /\ call.fn = "idle"
    /\ \E m \in MarketParameters, N \in 1..MaxN, payoff \in Payoffs :
          /\ BinomialOnGrid(m.T, m.r, m.sigma, N)
          /\ LET u == UpFactor(m.T, m.sigma, N)
                 d == DownFactor(m.T, m.sigma, N)
                 ST == TerminalPrices(m.S0, u, d, N)
                 p == UpProbability(m.T, m.r, m.sigma, N)
                 known == IsCallOrPut(payoff)
             IN  call' = CallRecord("binomial_steps", m, N, 0, payoff, <<>>,
                                    IF known THEN Return(NoneV) ELSE Raise("ValueError"))
                            @@ [pc |-> IF known THEN "loop" ELSE "done",
                                u |-> u, d |-> d, ST |-> ST, p |-> p, q |-> Sub(One, p),
                                V |-> IF known THEN TerminalPayoff(ST, m.K, payoff)
                                      ELSE AsTuple([j \in 1..(N + 1) |-> Zero], N + 1),
                                k |-> 0]
    /\ UNCHANGED <<rng, saved>>

\* one pass of for i in range(N - 1, -1, -1)
BackwardPass ==
    /\ call.fn = "binomial_steps" /\ call.pc = "loop"
    /\ call.k < LoopCount(call.N)
    /\ call' = [call EXCEPT
                  !.V = BackwardStep(call.V, Exp(Neg(Mul(call.r, TimeStep(call.T, call.N)))),
                                     call.p, call.q),
                  !.k = @ + 1]
    /\ UNCHANGED <<rng, saved>>

\* return V[0]
ReturnRoot ==
    /\ call.fn = "binomial_steps" /\ call.pc = "loop"
    /\ call.k = LoopCount(call.N)
    /\ call' = [call EXCEPT !.out = Return(call.V[1]), !.pc = "done"]
    /\ UNCHANGED <<rng, saved>>

\* the caller has the result or the error
LeaveBinomialMethod ==
    /\ call.fn = "binomial_steps" /\ call.pc = "done"
    /\ call' = Idle
    /\ UNCHANGED <<rng, saved>>

NextTree ==
    \/ EnterBinomialMethod
    \/ BackwardPass
    \/ ReturnRoot
    \/ LeaveBinomialMethod

SpecTree == Init /\ [][NextTree]_vars

\* ------------------------------------------- the Monte Carlo cell, re-run
\* the parameter sets of the Monte Carlo cell: one spot, strike, maturity and
\* volatility, two rates
CellParameters ==
    {m \in MarketParameters :
        m.S0 = One /\ m.K = One /\ m.T = One /\ m.sigma = One /\ m.r \in {Zero, One}}

\* the cell calls monte_carlo_method
CallMonteCarloCell == CallMonteCarloOn(CellParameters)

\* the cell binds the call's outcome to its names (call_mc, call_mc_err):
\* the outcome of an earlier call stays at hand while later calls run
BindResult ==
    /\ call.fn = "monte_carlo_method"
    /\ saved # call
    /\ saved' = call
    /\ UNCHANGED <<call, rng>>

\* the kernel as the Monte Carlo cell is run again and again; of the pricers,
\* monte_carlo_method alone touches the process-wide generator
NextSeed ==
    \/ CallMonteCarloCell
    \/ BindResult
    \/ Finish

SpecSeed == Init /\ [][NextSeed]_vars

\* ------------------------------------------------------------- properties
\* the last call was made on a parameter set of the data model
CallIsValid == ValidParameters(call.S0, call.K, call.T, call.sigma)

\* the last call's selector is 'call' or 'put'
SelectorIsCallOrPut == call.payoff \in {"call", "put"}

\* the last call returned a finite number as its price
ReturnedNumber == call.out.kind = "return" /\ IsFin(call.out.V)

\* C1: put-call parity of the closed form.  Whenever closed_formula has priced a
\* call on a parameter set with S0 > 0, K > 0, T > 0, sigma > 0, the call price
\* minus the put price of the same parameter set equals S0 - K * e^{-rT}.
C1_PutCallParity ==
    (call.fn = "closed_formula" /\ call.payoff = "call" /\ CallIsValid /\ Lt(Zero, call.K)) =>
        /\ call.out.kind = "return"
        /\ NumEq(Sub(call.out.V, closed_formula(call.S0, call.K, call.T, call.r, call.sigma, "put").V),
                 Sub(call.S0, Mul(call.K, Exp(Neg(Mul(call.r, call.T))))))

\* a call priced in the money with a non-zero rate, the put of the same
\* parameters having a positive price too
C1_Witness ==
    /\ call.fn = "closed_formula" /\ call.payoff = "call" /\ CallIsValid /\ Lt(Zero, call.K)
    /\ ~IsZero(call.r)
    /\ ReturnedNumber /\ Lt(Zero, call.out.V)
    /\ Lt(Zero, ClosedPut(call.S0, call.K, call.T, call.r, call.sigma))

\* the binomial coefficient C(n, j)
RECURSIVE Choose(_, _)
Choose(n, j) == IF j = 0 \/ j = n THEN 1 ELSE Choose(n - 1, j - 1) + Choose(n - 1, j)

\* payoff(ST): max(ST - K, 0) of a call, max(K - ST, 0) of a put
PayoffAt(ST, K, payoff) ==
    IF payoff = "call" THEN Maximum(Sub(ST, K), Zero) ELSE Maximum(Sub(K, ST), Zero)

\* sum over j = 0..m of C(N,j) * p^j * (1-p)^(N-j) * payoff(S0 * u^j * d^(N-j))
RECURSIVE ExpectationSum(_, _, _, _, _, _, _, _)
ExpectationSum(S0, K, u, d, p, N, payoff, m) ==
    IF m < 0 THEN Zero
    ELSE Add(ExpectationSum(S0, K, u, d, p, N, payoff, m - 1),
             Mul(Mul(Int2Num(Choose(N, m)), Mul(Pow(p, m), Pow(Sub(One, p), N - m))),
                 PayoffAt(Mul(Mul(S0, Pow(u, m)), Pow(d, N - m)), K, payoff)))

\* the N-step discounted risk-neutral expectation of the terminal payoff
RiskNeutralExpectation(S0, K, T, r, sigma, N, payoff) ==
    Mul(Exp(Neg(Mul(r, T))),
        ExpectationSum(S0, K, UpFactor(T, sigma, N), DownFactor(T, sigma, N),
                       UpProbability(T, r, sigma, N), N, payoff, N))

\* C2: for N >= 1 and a call or a put on a valid parameter set, binomial_method
\* returns the root value of the backward induction, and it equals the N-step
\* discounted risk-neutral expectation of the terminal payoff.
C2_RootIsExpectation ==
    (call.fn = "binomial_method" /\ SelectorIsCallOrPut /\ CallIsValid) =>
        /\ call.out.kind = "return"
        /\ NumEq(call.out.V,
                 RiskNeutralExpectation(call.S0, call.K, call.T, call.r, call.sigma,
                                        call.N, call.payoff))

\* a tree of several steps priced at a positive value, with a non-zero rate
C2_Witness ==
    /\ call.fn = "binomial_method" /\ SelectorIsCallOrPut /\ CallIsValid
    /\ call.N >= 2 /\ ~IsZero(call.r)
    /\ ReturnedNumber /\ Lt(Zero, call.out.V)

\* C3: monte_carlo_method and binomial_method raise ValueError for every payoff
\* selector other than 'call' and 'put', and return nothing to the caller.
C3_UnknownSelectorRaises ==
    (call.fn \in {"monte_carlo_method", "binomial_method"} /\ ~SelectorIsCallOrPut) =>
        /\ call.out.kind = "raise"
        /\ call.out.exc = "ValueError"

\* monte_carlo_method called with another selector on a valid parameter set and
\* no seed: the draw has been made, the call has raised
C3_Witness ==
    /\ call.fn = "monte_carlo_method" /\ ~SelectorIsCallOrPut /\ CallIsValid
    /\ call.seed = <<>> /\ rng # call.g
    /\ call.out.kind = "raise"

\* C4: closed_formula surfaces an error to the caller for every payoff selector
\* other than 'call' and 'put' and does not return normally.
C4_ClosedFormulaRejectsSelector ==
    (call.fn = "closed_formula" /\ ~SelectorIsCallOrPut) => call.out.kind = "raise"

\* C5: no pricing call on an invalid parameter set (T <= 0, sigma <= 0, S0 <= 0
\* or K < 0) returns a number.
C5_InvalidParametersRejected ==
    (call.fn \in {"closed_formula", "monte_carlo_method", "binomial_method"} /\ ~CallIsValid) =>
        ~ReturnedNumber

\* the up-probability of the last call's tree is a probability
ProbabilityInUnitInterval ==
    LET p == UpProbability(call.T, call.r, call.sigma, call.N)
    IN  Le(Zero, p) /\ Le(p, One)

\* C6: binomial_method rejects the call with an error whenever the derived
\* up-probability p = (e^{r*dt} - d)/(u - d) is outside [0,1].
C6_InconsistentModelRejected ==
    (call.fn = "binomial_method" /\ CallIsValid /\ ~ProbabilityInUnitInterval) =>
        call.out.kind = "raise"

\* C7: on every valid parameter set (S0 > 0, K >= 0, T > 0, sigma > 0, any r)
\* closed_formula returns a real-valued price and never raises.
C7_ClosedFormulaTotal ==
    (call.fn = "closed_formula" /\ CallIsValid /\ SelectorIsCallOrPut) => ReturnedNumber

\* C9: for every M >= 1, monte_carlo_method on a valid parameter set returns a
\* standard error that is a defined number >= 0.
C9_StdErrDefined ==
    (call.fn = "monte_carlo_method" /\ CallIsValid /\ call.M >= 1 /\ call.out.kind = "return") =>
        /\ IsNumber(call.out.std_err)
        /\ call.out.std_err.s = 1 \/ call.out.std_err.n = 0

\* the European discounted payoffs e^{-rT} * max(K - S_N, 0) on the paths the
\* American put cell simulates
EuropeanValues(S0, K, T, r, sigma, N, paths, seed, g) ==
    LET S == SimulatePaths(S0, T, r, sigma, N, paths, CellDraws(N, paths, seed, g))
    IN  AsTuple([p \in 1..paths |->
                    Mul(Exp(Neg(Mul(r, T))), Maximum(Sub(K, S[N + 1][p]), Zero))], paths)

\* the European values on the paths of the last run of the cell
CellEuropeanValues ==
    EuropeanValues(call.S0, call.K, call.T, call.r, call.sigma, call.N, call.M,
                   call.seed, call.g)

\* C10: on every path the value the backward loop leaves is >= that path's
\* European discounted payoff, and so the American estimate is >= the European
\* estimate on the same paths, whatever the sign of r.
C10_AmericanAtLeastEuropean ==
    (call.fn = "american_put") =>
        /\ call.out.kind = "return"
        /\ LET european == CellEuropeanValues
           IN  /\ \A p \in 1..call.M : Le(european[p], call.out.values[p])
               /\ Le(Mean(european), call.out.V)

\* a run of several steps with a positive rate in which a path ends in the
\* money and early exercise makes it worth more than its European payoff
C10_Witness ==
    /\ call.fn = "american_put" /\ call.N >= 2 /\ Lt(Zero, call.r)
    /\ call.out.kind = "return"
    /\ LET european == CellEuropeanValues
       IN  \E p \in 1..call.M :
              /\ Lt(Zero, european[p])
              /\ Lt(european[p], call.out.values[p])

\* two call records have the same arguments
SameArguments(a, b) ==
    /\ a.fn = b.fn /\ a.S0 = b.S0 /\ a.K = b.K /\ a.T = b.T /\ a.r = b.r
    /\ a.sigma = b.sigma /\ a.M = b.M /\ a.payoff = b.payoff /\ a.seed = b.seed

\* C8: two calls of monte_carlo_method with the same integer seed and the same
\* other arguments have the same outcome and return identical (V, std_err),
\* whatever calls ran between them; two calls that differ had seed=None.
C8_SeededReproducible ==
    (/\ call.fn = "monte_carlo_method" /\ saved.fn = "monte_carlo_method"
     /\ SameArguments(call, saved) /\ call.seed # <<>>) =>
        /\ call.out.kind = saved.out.kind
        /\ call.out.V = saved.out.V
        /\ call.out.std_err = saved.out.std_err

\* a seeded call repeated after the process-wide generator has moved on, both
\* calls returning an estimate from several draws
C8_Witness ==
    /\ call.fn = "monte_carlo_method" /\ saved.fn = "monte_carlo_method"
    /\ SameArguments(call, saved) /\ call.seed # <<>>
    /\ call.g # saved.g /\ call.M >= 2
    /\ call.out.kind = "return" /\ IsNumber(call.out.std_err)

\* the array S and the array payoffs of the last run of the American put cell
CellPaths ==
    SimulatePaths(call.S0, call.T, call.r, call.sigma, call.N, call.M,
                  CellDraws(call.N, call.M, call.seed, call.g))
CellPayoffs == PutPayoffs(CellPaths, call.K)

\* option_values of that run once the pass at time index i is done, for
\* i = 0..N, at index i + 1
CellValuesByStep ==
    LET payoffs == CellPayoffs
        disc == Exp(Neg(Mul(call.r, TimeStep(call.T, call.N))))
    IN  AsTuple([j \in 1..(call.N + 1) |->
                    AmericanInductionDownTo(payoffs, call.N, j - 1, disc)], call.N + 1)

\* C11: in the American put backward induction the per-path value after step i
\* is >= the immediate-exercise payoff max(K - S_i, 0), for every i from N down
\* to 0; the final per-path values and the reported price are >= max(K - S0, 0).
C11_AtLeastIntrinsic ==
    (call.fn = "american_put") =>
        /\ LET S == CellPaths
               values == CellValuesByStep
           IN  /\ \A i \in 0..call.N : \A p \in 1..call.M :
                     Le(Maximum(Sub(call.K, S[i + 1][p]), Zero), values[i + 1][p])
               /\ values[1] = call.out.values
        /\ \A p \in 1..call.M :
              Le(Maximum(Sub(call.K, call.S0), Zero), call.out.values[p])
        /\ Le(Maximum(Sub(call.K, call.S0), Zero), call.out.V)

\* a run of several steps, in the money at time 0, in which a path is worth
\* its time-0 exercise value and more than its discounted continuation
C11_Witness ==
    /\ call.fn = "american_put" /\ call.N >= 2 /\ call.M >= 2
    /\ Lt(call.S0, call.K)
    /\ LET values == CellValuesByStep
       IN  \E p \in 1..call.M :
              /\ call.out.values[p] = Sub(call.K, call.S0)
              /\ Lt(Mul(Exp(Neg(Mul(call.r, TimeStep(call.T, call.N)))), values[2][p]),
                    call.out.values[p])

\* American-style backward step from layer k + 1 (values V) to layer k: each
\* node is the maximum of its continuation value and its intrinsic value
AmericanTreeStep(V, k, S0, K, u, d, disc, p, payoff) ==
    AsTuple([j \in 1..(k + 1) |->
                Maximum(Mul(disc, Add(Mul(p, V[j + 1]), Mul(Sub(One, p), V[j]))),
                        PayoffAt(Mul(Mul(S0, Pow(u, j - 1)), Pow(d, k - (j - 1))), K, payoff))],
            k + 1)

\* the values of layer k of the American-style induction on the N-step tree
RECURSIVE AmericanTreeLayer(_, _, _, _, _, _, _, _, _)
AmericanTreeLayer(k, N, S0, K, u, d, disc, p, payoff) ==
    IF k >= N THEN TerminalPayoff(TerminalPrices(S0, u, d, N), K, payoff)
    ELSE AmericanTreeStep(AmericanTreeLayer(k + 1, N, S0, K, u, d, disc, p, payoff),
                          k, S0, K, u, d, disc, p, payoff)

\* the root value of the American-style induction
AmericanTreeValue(S0, K, T, r, sigma, N, payoff) ==
    AmericanTreeLayer(0, N, S0, K, UpFactor(T, sigma, N), DownFactor(T, sigma, N),
                      Exp(Neg(Mul(r, TimeStep(T, N)))), UpProbability(T, r, sigma, N),
                      payoff)[1]

\* C12: the binomial pricer prices American exercise: asked for the American
\* price of an option on a valid parameter set, it returns the root value of
\* the induction that takes, at every node, the maximum of the continuation
\* value and the intrinsic value (trees whose up-probability is a probability).
C12_BinomialPricesAmerican ==
    (/\ call.fn = "binomial_method" /\ SelectorIsCallOrPut /\ CallIsValid
     /\ ProbabilityInUnitInterval) =>
        /\ call.out.kind = "return"
        /\ NumEq(call.out.V,
                 AmericanTreeValue(call.S0, call.K, call.T, call.r, call.sigma,
                                   call.N, call.payoff))

\* C13: every pricer is a pure function: after a call of closed_formula,
\* binomial_method or monte_carlo_method (seed given or seed=None) on a valid
\* parameter set the process-wide generator is in the state it had before the
\* call.
C13_PricersArePure ==
    (/\ call.fn \in {"closed_formula", "binomial_method", "monte_carlo_method"}
     /\ CallIsValid) =>
        rng = call.g

\* had k more draws been taken from the process-wide generator before the last
\* monte_carlo_method call, the call would have returned this
OutcomeAfterOtherDraws(k) ==
    monte_carlo_method(call.S0, call.K, call.T, call.r, call.sigma, call.M,
                       call.payoff, call.seed, StateAfter(call.g, k))

\* C14: no two simulations share generator state: what a monte_carlo_method
\* call draws, and so what it returns, does not depend on how many draws
\* another simulation has made before it, for seed=None as for an integer seed.
C14_IndependentStreams ==
    (call.fn = "monte_carlo_method" /\ CallIsValid) =>
        \A k \in 0..MaxM : OutcomeAfterOtherDraws(k) = call.out

\* C15: for every valid parameter set calculate_delta returns a value in
\* [0, 1] for a call and a value in [-1, 0] for a put.
C15_DeltaBounds ==
    (call.fn = "calculate_delta" /\ CallIsValid /\ SelectorIsCallOrPut) =>
        /\ ReturnedNumber
        /\ call.payoff = "call" => Le(Zero, call.out.V) /\ Le(call.out.V, One)
        /\ call.payoff = "put" => Le(Int2Num(-1), call.out.V) /\ Le(call.out.V, Zero)

\* d1, d2 and e^{-rT} of the last call's parameter set
CallD1 == d1Of(call.S0, call.K, call.T, call.r, call.sigma)
CallD2 == d2Of(call.S0, call.K, call.T, call.r, call.sigma)
CallDiscount == Exp(Neg(Mul(call.r, call.T)))

\* the formulas the notebook states: -S0*N'(d1)*sigma/(2*sqrt(T)) -/+ r*K*e^{-rT}*N(+/-d2),
\* S0*sqrt(T)*N'(d1), and +/- K*T*e^{-rT}*N(+/-d2)
StatedTheta ==
    LET decay == Neg(DivNp(Mul(Mul(call.S0, NormPdf(CallD1)), call.sigma),
                           Mul(Int2Num(2), Sqrt(call.T))))
    IN  IF call.payoff = "call"
        THEN Sub(decay, Mul(Mul(Mul(call.r, call.K), CallDiscount), NormCdf(CallD2)))
        ELSE Add(decay, Mul(Mul(Mul(call.r, call.K), CallDiscount), NormCdf(Neg(CallD2))))
StatedVega == Mul(Mul(call.S0, Sqrt(call.T)), NormPdf(CallD1))
StatedRho ==
    IF call.payoff = "call"
    THEN Mul(Mul(Mul(call.K, call.T), CallDiscount), NormCdf(CallD2))
    ELSE Neg(Mul(Mul(Mul(call.K, call.T), CallDiscount), NormCdf(Neg(CallD2))))

AgreeUpTo(S, i, p, q) ==
    /\ \A j \in 0..i : S[j + 1][p] = S[j + 1][q]
    /\ \E j \in (i + 1)..(Len(S) - 1) : S[j + 1][p] # S[j + 1][q]

\* C17: the exercise rule of the American put cell is a stopping time: two
\* paths that agree on S_0..S_i and differ afterwards have the same value at
\* step i and make the same exercise decision there (exercise: the payoff at
\* step i exceeds the discounted value carried back from step i + 1).
C17_StoppingTime ==
    (call.fn = "american_put") =>
        LET S == CellPaths
            payoffs == PutPayoffs(S, call.K)
            values == CellValuesByStep
            disc == Exp(Neg(Mul(call.r, TimeStep(call.T, call.N))))
        IN  \A i \in 0..(call.N - 1) : \A p, q \in 1..call.M :
                AgreeUpTo(S, i, p, q) =>
                    /\ values[i + 1][p] = values[i + 1][q]
                    /\ Lt(Mul(disc, values[i + 2][p]), payoffs[i + 1][p])
                         <=> Lt(Mul(disc, values[i + 2][q]), payoffs[i + 1][q])


\* the adjusted barrier of the barrier cell's run
CallAdjustedBarrier == AdjustedBarrier(call.B, call.T, call.sigma, call.N)

\* C18: in the barrier Monte Carlo a path's payoff is zeroed if and only if
\* its running maximum over S_0..S_N exceeds the corrected barrier; a path
\* whose running maximum is at most that barrier keeps max(S_N - K, 0).
C18_KnockOutIffExceeds ==
    (call.fn = "barrier_u") =>
        LET S == CellPaths
            B_adj == CallAdjustedBarrier
        IN  \A p \in 1..call.M :
                call.out.values[p] =
                    IF Lt(B_adj, RunningMaximum(S, p)) THEN Zero
                    ELSE Maximum(Sub(S[call.N + 1][p], call.K), Zero)

\* C19: if the strike is at or above the barrier level of the knock-out test,
\* every path's payoff is 0 and the reported price is exactly 0.
C19_StrikeAboveBarrierPaysZero ==
    (call.fn = "barrier_u" /\ Le(CallAdjustedBarrier, call.K)) =>
        /\ \A p \in 1..call.M : call.out.values[p] = Zero
        /\ call.out.V = Zero

\* a run with K at or above the adjusted barrier in which a path ends above
\* the strike, so that only the knock-out makes its payoff zero
C19_Witness ==
    /\ call.fn = "barrier_u" /\ call.N >= 2 /\ call.M >= 2
    /\ Le(CallAdjustedBarrier, call.K)
    /\ LET S == CellPaths
       IN  \E p \in 1..call.M : Lt(call.K, S[call.N + 1][p])
    /\ call.out.V = Zero


\* (1/N) * (S_1 + ... + S_N) of path p: the average over the N dates after time 0
AverageAfterStart(S, p) ==
    Mean(AsTuple([i \in 1..(Len(S) - 1) |-> S[i + 1][p]], Len(S) - 1))

\* C20: the fixed-strike Asian call averages the N simulated dates after time
\* 0: the per-path average is A_T = (1/N) * (S_1 + ... + S_N), the initial
\* price S_0 is not averaged, and the payoff is max(A_T - K, 0).
C20_AverageExcludesStart ==
    (call.fn = "asian_fixed") =>
        LET S == CellPaths
        IN  \A p \in 1..call.M :
                call.out.values[p] = Maximum(Sub(AverageAfterStart(S, p), call.K), Zero)


\* C21: in the lookback cell the running maximum Y_T = max(S_0..S_N) of every
\* path is at least S_N and at least S_0, so the payoff Y_T - S_N is
\* non-negative and the np.maximum(., 0) clamp leaves it unchanged.
C21_LookbackNonNegative ==
    (call.fn = "lookback") =>
        LET S == CellPaths
        IN  \A p \in 1..call.M :
                LET YT == LookbackMaximum(S, p)
                    ST == S[call.N + 1][p]
                IN  /\ Le(ST, YT)
                    /\ Le(S[1][p], YT)
                    /\ Le(Zero, Sub(YT, ST))
                    /\ call.out.values[p] = Sub(YT, ST)

\* a path whose maximum is attained strictly inside the path: above S_0 and
\* above S_N, with a positive payoff
C21_Witness ==
    /\ call.fn = "lookback" /\ call.N >= 2
    /\ LET S == CellPaths
       IN  \E p \in 1..call.M :
              /\ Lt(S[1][p], LookbackMaximum(S, p))
              /\ Lt(S[call.N + 1][p], LookbackMaximum(S, p))
              /\ Lt(Zero, call.out.values[p])


\* C22: path generation follows the exact lognormal recursion: S[0] = S0 on
\* every path; once the forward loop has passed row j, S[j] = S[j-1] *
\* exp((r - sigma^2/2)*dt + sigma*sqrt(dt)*Z[j-1]), row j of S has been written
\* exactly once and increment row j - 1 is the one used; the rows not yet
\* reached are still unwritten; every written S[j] is strictly positive when
\* S0 > 0; and the finished array is the array S of the Monte Carlo cells.
C22_LognormalRecursion ==
    (call.fn = "path_loop") =>
        /\ call.i \in 1..(call.N + 1)
        /\ \A p \in 1..call.M : call.S[1][p] = call.S0
        /\ \A j \in 1..call.N : \A p \in 1..call.M :
              IF j < call.i
              THEN call.S[j + 1][p]
                     = Mul(call.S[j][p],
                           Exp(Add(Mul(Sub(call.r, DivNp(Mul(call.sigma, call.sigma), Int2Num(2))),
                                       TimeStep(call.T, call.N)),
                                   Mul(Mul(call.sigma, Sqrt(TimeStep(call.T, call.N))),
                                       call.Z[(j - 1) * call.M + p]))))
              ELSE call.S[j + 1][p] = Zero
        /\ \A j \in 0..call.N : call.writes[j + 1] = IF j < call.i THEN 1 ELSE 0
        /\ Lt(Zero, call.S0) =>
              \A j \in 0..(call.i - 1) : \A p \in 1..call.M : Lt(Zero, call.S[j + 1][p])
        /\ (call.i = call.N + 1) =>
              call.S = SimulatePaths(call.S0, call.T, call.r, call.sigma, call.N, call.M,
                                     CellDraws(call.N, call.M, call.seed, call.g))

\* a finished loop of at least two steps with S0 > 0 and a path that moves at
\* each of its first two steps
C22_Witness ==
    /\ call.fn = "path_loop" /\ call.N >= 2 /\ call.M >= 2
    /\ call.i = call.N + 1
    /\ Lt(Zero, call.S0)
    /\ \E p \in 1..call.M : call.S[2][p] # call.S[1][p] /\ call.S[3][p] # call.S[2][p]


\* C23: the binomial tree recombines.  On a valid parameter set u * d = 1; an
\* up move followed by a down move, in either order, returns to the starting
\* price; the price of a node depends only on its number of ups minus its
\* number of downs; and the terminal layer of binomial_method has exactly
\* N + 1 prices S0 * u^j * d^(N-j), j = 0..N, strictly increasing in j.
C23_TreeRecombines ==
    (call.fn = "binomial_steps" /\ CallIsValid) =>
        /\ Mul(call.u, call.d) = One
        /\ Len(call.ST) = call.N + 1
        /\ \A j \in 0..call.N :
              /\ call.ST[j + 1]
                   = Mul(Mul(call.S0, Pow(call.u, j)), Pow(call.d, call.N - j))
              /\ Mul(Mul(call.ST[j + 1], call.u), call.d) = call.ST[j + 1]
              /\ Mul(Mul(call.ST[j + 1], call.d), call.u) = call.ST[j + 1]
        /\ \A n \in 0..call.N : \A j \in 0..n : \A m \in 0..call.N : \A i \in 0..m :
              (2 * j - n = 2 * i - m) =>
                  Mul(Mul(call.S0, Pow(call.u, j)), Pow(call.d, n - j))
                    = Mul(Mul(call.S0, Pow(call.u, i)), Pow(call.d, m - i))
        /\ \A j \in 1..call.N : Lt(call.ST[j], call.ST[j + 1])

\* a tree of at least two steps on a valid parameter set, where the middle
\* terminal node of a two-step tree, or a node one up and one down from the
\* root, is back at S0
C23_Witness ==
    /\ call.fn = "binomial_steps" /\ CallIsValid /\ call.N >= 2
    /\ Lt(One, call.u)
    /\ \E j \in 0..call.N : 2 * j = call.N /\ call.ST[j + 1] = call.S0


\* the value of the tree node of layer n with j up-moves: the payoff at the
\* terminal layer, the discounted p/q combination of its two successors before
RECURSIVE CallNodeValue(_, _)
CallNodeValue(n, j) ==
    IF n = call.N THEN PayoffAt(call.ST[j + 1], call.K, call.payoff)
    ELSE Mul(Exp(Neg(Mul(call.r, TimeStep(call.T, call.N)))),
             Add(Mul(call.p, CallNodeValue(n + 1, j + 1)), Mul(call.q, CallNodeValue(n + 1, j))))

\* V with the entries that are no longer tree nodes after k passes, V[N-k+1..N],
\* overwritten by x
Scrub(V, N, k, x) ==
    AsTuple([j \in 1..(N + 1) |-> IF j - 1 > N - k THEN x ELSE V[j]], N + 1)

\* C24: loop invariant of the backward iteration of binomial_method.  After k
\* passes, V[j] is the value of tree node (layer N - k, j up-moves) for every
\* j in 0..N-k and V[N] is still the terminal payoff of the top node; the
\* entries above N - k do not influence the V[0] that the remaining passes
\* produce; the loop ends after exactly N passes and V[0], the root value, is
\* returned, which is the result of binomial_method.
C24_BackwardLoopInvariant ==
    (call.fn = "binomial_steps" /\ call.out.kind = "return") =>
        LET disc == Exp(Neg(Mul(call.r, TimeStep(call.T, call.N))))
            rest == call.N - call.k
        IN  /\ call.k \in 0..call.N
            /\ \A j \in 0..rest : call.V[j + 1] = CallNodeValue(rest, j)
            /\ call.V[call.N + 1] = PayoffAt(call.ST[call.N + 1], call.K, call.payoff)
            /\ \A x \in {Zero, One, NaN} :
                  BackwardIteration(Scrub(call.V, call.N, call.k, x), rest, disc,
                                    call.p, call.q)[1]
                    = BackwardIteration(call.V, rest, disc, call.p, call.q)[1]
            /\ (call.pc = "done") =>
                  /\ call.k = call.N
                  /\ call.out.V = CallNodeValue(0, 0)
                  /\ call.out = binomial_method(call.S0, call.K, call.T, call.r, call.sigma,
                                                call.N, call.payoff)

\* a finished loop of at least three passes on a valid parameter set, with a
\* positive root value and a non-zero entry of V that is no longer a tree node
C24_Witness ==
    /\ call.fn = "binomial_steps" /\ call.pc = "done" /\ call.out.kind = "return"
    /\ CallIsValid /\ call.N >= 3 /\ call.k = call.N
    /\ Lt(Zero, call.out.V)
    /\ \E j \in 1..(call.N - 1) : ~IsZero(call.V[j + 1]) /\ call.V[j + 1] # call.out.V


\* e^{-r*i*dt} * max(K - S_i, 0) along path p of the array S
DiscountedExercise(S, K, T, r, N, i, p) ==
    Mul(Exp(Neg(Mul(Mul(r, Int2Num(i)), TimeStep(T, N)))), Maximum(Sub(K, S[i + 1][p]), Zero))

\* the largest of the discounted exercise payoffs at the dates 0..i of path p
RECURSIVE BestExercise(_, _, _, _, _, _, _)
BestExercise(S, K, T, r, N, i, p) ==
    IF i = 0 THEN DiscountedExercise(S, K, T, r, N, 0, p)
    ELSE Maximum(BestExercise(S, K, T, r, N, i - 1, p), DiscountedExercise(S, K, T, r, N, i, p))

\* C25: after the backward loop of the American put cell every path's value is
\* the maximum over i in 0..N of e^{-r*i*dt} * max(K - S_i, 0) along that same
\* path, and the reported price is the mean of these per-path maxima.
C25_BestDiscountedExercise ==
    (call.fn = "american_put") =>
        LET S == CellPaths
            best == AsTuple([p \in 1..call.M |->
                                BestExercise(S, call.K, call.T, call.r, call.N, call.N, p)],
                            call.M)
        IN  /\ \A p \in 1..call.M : call.out.values[p] = best[p]
            /\ call.out.V = Mean(best)

\* a run with a non-zero rate and a path whose best discounted exercise is at
\* a date strictly inside the path
C25_Witness ==
    /\ call.fn = "american_put" /\ call.N >= 2 /\ call.M >= 2 /\ ~IsZero(call.r)
    /\ LET S == CellPaths
       IN  \E p \in 1..call.M : \E i \in 1..(call.N - 1) :
              /\ call.out.values[p] = DiscountedExercise(S, call.K, call.T, call.r, call.N, i, p)
              /\ Lt(DiscountedExercise(S, call.K, call.T, call.r, call.N, 0, p),
                    call.out.values[p])
              /\ Lt(DiscountedExercise(S, call.K, call.T, call.r, call.N, call.N, p),
                    call.out.values[p])


\* C26: put-call parity of the binomial pricer.  For every N >= 1 and every
\* valid parameter set, binomial_method(.., 'call') - binomial_method(.., 'put')
\* equals S0 - K * e^{-rT}, whether or not p lies in [0,1].
C26_BinomialParity ==
    (call.fn = "binomial_method" /\ call.payoff = "call" /\ CallIsValid) =>
        /\ call.out.kind = "return"
        /\ NumEq(Sub(call.out.V,
                     binomial_method(call.S0, call.K, call.T, call.r, call.sigma, call.N,
                                     "put").V),
                 Sub(call.S0, Mul(call.K, Exp(Neg(Mul(call.r, call.T))))))

\* a call priced on a tree of several steps whose p lies outside [0,1], with a
\* positive strike and a non-zero rate
C26_Witness ==
    /\ call.fn = "binomial_method" /\ call.payoff = "call" /\ CallIsValid
    /\ call.N >= 2 /\ Lt(Zero, call.K) /\ ~IsZero(call.r)
    /\ ~ProbabilityInUnitInterval
    /\ ReturnedNumber

=============================================================================
